---- MODULE Spec2Model ----
(***************************************************************************)
(* Subtitle pipeline and broadcast bus of realtime-subs                    *)
(* (src/server/index.js): the /transcribe handler, the delayed "final"     *)
(* publish, broadcastSubtitle and the WebSocket client registry.           *)
(*                                                                         *)
(* Node runs every callback to completion, so each action below is one     *)
(* callback (or the part of the async handler between two awaits).         *)
(* Texts are sequences of one-character strings.                           *)
(***************************************************************************)
EXTENDS Integers, Sequences, FiniteSets, TLC

\* ------------------------------------------------------------------ bounds
MaxSubs == 2
MaxChannels == 2

Subs == 1..MaxSubs
Channels == 1..MaxChannels

\* ------------------------------------------------------------------- texts
Upper == <<"A","B","C","D","E","F","G","H","I","J","K","L","M",
           "N","O","P","Q","R","S","T","U","V","W","X","Y","Z">>
Lower == <<"a","b","c","d","e","f","g","h","i","j","k","l","m",
           "n","o","p","q","r","s","t","u","v","w","x","y","z">>

UpperSet == {Upper[i] : i \in 1..26}

LowerOf == [ch \in UpperSet |-> Lower[CHOOSE i \in 1..26 : Upper[i] = ch]]

\* The /i flag: letters compare without case.
ToLower(ch) == IF ch \in UpperSet THEN LowerOf[ch] ELSE ch

LowerText(s) == [i \in 1..Len(s) |-> ToLower(s[i])]

\* What String.prototype.trim and \s treat as white space.
IsSpace(ch) == ch \in {" ", "\t", "\n", "\r", "\f"}

\* What "." does not match.
IsLineTerminator(ch) == ch \in {"\n", "\r"}

\* \d
IsDigit(ch) == ch \in {"0","1","2","3","4","5","6","7","8","9"}

\* String.prototype.trim
Trim(s) ==
  LET idx == {i \in 1..Len(s) : ~IsSpace(s[i])}
  IN IF idx = {} THEN <<>>
     ELSE LET lo == CHOOSE i \in idx : \A j \in idx : i <= j
              hi == CHOOSE i \in idx : \A j \in idx : j <= i
          IN SubSeq(s, lo, hi)

\* The literal lit (lower case) stands in s at position i, letters compared
\* without case.
HasAt(s, lit, i) ==
  /\ i >= 1
  /\ i + Len(lit) - 1 <= Len(s)
  /\ \A k \in 1..Len(lit) : ToLower(s[i + k - 1]) = lit[k]

\* /lit/i
Contains(s, lit) == \E i \in 1..Len(s) : HasAt(s, lit, i)

\* /a.*b/i : a, then any characters of one line, then b.
ContainsThen(s, a, b) ==
  \E i \in 1..Len(s) : \E j \in 1..Len(s) :
    /\ HasAt(s, a, i)
    /\ j >= i + Len(a)
    /\ HasAt(s, b, j)
    /\ \A k \in (i + Len(a))..(j - 1) : ~IsLineTerminator(s[k])

\* /copyright.*\d{4}/i
MatchCopyright(s) ==
  LET a == <<"c","o","p","y","r","i","g","h","t">>
  IN \E i \in 1..Len(s) : \E j \in 1..Len(s) :
       /\ HasAt(s, a, i)
       /\ j >= i + Len(a)
       /\ j + 3 <= Len(s)
       /\ \A k \in j..(j + 3) : IsDigit(s[k])
       /\ \A k \in (i + Len(a))..(j - 1) : ~IsLineTerminator(s[k])

\* /^wdr\s*\d+$/i
MatchWdr(s) ==
  /\ HasAt(s, <<"w","d","r">>, 1)
  /\ \E d \in 4..Len(s) :
       /\ \A k \in 4..(d - 1) : IsSpace(s[k])
       /\ \A k \in d..Len(s) : IsDigit(s[k])

\* /^lit$/i
MatchWhole(s, lit) == LowerText(s) = lit

\* HALLUZINATION_PATTERNS, in the order of the list.
PatternTest(n, s) ==
  CASE n = 1 -> MatchCopyright(s)
    [] n = 2 -> ContainsThen(s, <<"u","n","t","e","r","t","i","t","e","l">>,
                                <<"v","o","n">>)
    [] n = 3 -> Contains(s, <<"t","h","a","n","k","s"," ","f","o","r"," ",
                              "w","a","t","c","h","i","n","g">>)
    [] n = 4 -> ContainsThen(s, <<"v","i","e","l","e","n"," ","d","a","n","k">>,
                                <<"z","u","s","c","h","a","u","e","n">>)
    [] n = 5 -> Contains(s, <<"s","u","b","s","c","r","i","b","e">>)
    [] n = 6 -> ContainsThen(s, <<"l","i","k","e">>,
                                <<"c","o","m","m","e","n","t">>)
    [] n = 7 -> Contains(s, <<"s","t","e","p","h","a","n","i","e"," ",
                              "g","e","i","g","e","s">>)
    [] n = 8 -> MatchWdr(s)
    [] n = 9 -> MatchWhole(s, <<"a","r","d">>)
    [] n = 10 -> MatchWhole(s, <<"z","d","f">>)

NumPatterns == 10

\* The for loop of isHalluzination from pattern n on: true at the first
\* pattern that matches.
RECURSIVE PatternLoop(_, _)
PatternLoop(n, trimmed) ==
  IF n > NumPatterns THEN FALSE
  ELSE IF PatternTest(n, trimmed) THEN TRUE
  ELSE PatternLoop(n + 1, trimmed)

MinLength == 3

\* Mutant of isHalluzination: the length is taken of the text as it came,
\* not of the trimmed text.
isHalluzinationUntrimmed(text) ==
  IF text = <<>> \/ Len(text) < MinLength THEN TRUE
  ELSE PatternLoop(1, Trim(text))

isHalluzination(text) ==
  IF text = <<>> \/ Len(Trim(text)) < MinLength THEN TRUE
  ELSE PatternLoop(1, Trim(text))

\* !germanText || germanText.trim() === ''
NoSpeech(germanText) == germanText = <<>> \/ Trim(germanText) = <<>>

\* ------------------------------------------------------------------ inputs
\* req.file as multer leaves it: absent, present with zero bytes, or audio.
Files == {"missing", "empty", "clip"}

TxtEmpty == <<>>
TxtBlank == <<" ", " ">>
TxtArd == <<"A", "R", "D">>
TxtHallo == <<" ", "H", "a", "l", "l", "o">>
Transcripts == {TxtEmpty, TxtBlank, TxtArd, TxtHallo}

TxtHi == <<" ", "H", "i", " ">>
TxtOk == <<"O", "k">>
Contents == {TxtHi, TxtOk}

\* The provider's answer to the transcription call: response.ok and
\* result.text.
WhisperResponses ==
  {[ok |-> FALSE, text |-> TxtEmpty]} \cup
  {[ok |-> TRUE, text |-> t] : t \in Transcripts}

\* The provider's answer to the translation call: response.ok, whether
\* result.choices[0].message.content exists, and that content.
TranslateResponses ==
  {[ok |-> FALSE, shaped |-> FALSE, content |-> TxtEmpty],
   [ok |-> TRUE, shaped |-> FALSE, content |-> TxtEmpty]} \cup
  {[ok |-> TRUE, shaped |-> TRUE, content |-> t] : t \in Contents}

\* ------------------------------------------------------------------- state
VARIABLES
  apiKey,        \* process.env.OPENAI_API_KEY is set
  clients,       \* the Set clients, in insertion order
  readyState,    \* ws.readyState per channel; 0: not connected yet
  broken,        \* the channel is OPEN for ws but its socket is dead
  errPending,    \* an 'error' event of the channel waits for its handler
  received,      \* per channel, the messages the viewer got
  pc,            \* per submission, where its handler stands
  file,          \* req.file; "released" once the handler reads it no more
  germanText,    \* const germanText
  englishText,   \* const englishText
  response,      \* per submission, the responses sent on res
  whisperCalls,  \* per submission, fetches of /v1/audio/transcriptions
  translateCalls,\* per submission, fetches of /v1/chat/completions
  outcome,       \* per submission, the branch its handler left by
  whisperStatus, \* history: how the transcription call ended
  translateStatus,\* history: how the translation call ended
  crashed,       \* an exception reached the event loop
  published,     \* history: every broadcastSubtitle call, with what it met
  connectedAt,   \* history: Len(published) when the channel connected
  leftOpenAt,    \* history: Len(published) when readyState left OPEN
  removals,      \* history: times clients.delete removed the channel
  variant,       \* the server file that runs: "translateFirst" is
                 \* src/server/index.js, "sourcePartial" src/unnamed/part_000
  input,         \* the argument of a call of isHalluzination
  verdict,       \* what that call returned, "none" before it
  before,        \* history: clients before the last clients.delete
  dropped,       \* history: the channel of the last clients.delete, 0: none
  repeated       \* history: the delete before it was of the same channel

vars == <<apiKey, clients, readyState, broken, errPending, received, pc, file,
          germanText, englishText, response, whisperCalls, translateCalls,
          outcome, whisperStatus, translateStatus, crashed, published,
          connectedAt, leftOpenAt, removals, variant, input, verdict, before,
          dropped, repeated>>

auxVars == <<variant, input, verdict, before, dropped, repeated>>
subVars == <<pc, file, germanText, englishText, response, whisperCalls,
             translateCalls, outcome, whisperStatus, translateStatus>>
busVars == <<clients, readyState, broken, errPending, connectedAt, leftOpenAt,
             removals>>
pubVars == <<received, published>>

OPEN == 1
CLOSING == 2
CLOSED == 3

\* The server after construction.
Start ==
  /\ apiKey \in BOOLEAN
  /\ clients = <<>>
  /\ readyState = [c \in Channels |-> 0]
  /\ broken = [c \in Channels |-> FALSE]
  /\ errPending = [c \in Channels |-> FALSE]
  /\ received = [c \in Channels |-> <<>>]
  /\ pc = [r \in Subs |-> "new"]
  /\ file = [r \in Subs |-> "missing"]
  /\ germanText = [r \in Subs |-> TxtEmpty]
  /\ englishText = [r \in Subs |-> TxtEmpty]
  /\ response = [r \in Subs |-> <<>>]
  /\ whisperCalls = [r \in Subs |-> 0]
  /\ translateCalls = [r \in Subs |-> 0]
  /\ outcome = [r \in Subs |-> "none"]
  /\ whisperStatus = [r \in Subs |-> "none"]
  /\ translateStatus = [r \in Subs |-> "none"]
  /\ crashed = FALSE
  /\ published = <<>>
  /\ connectedAt = [c \in Channels |-> 0]
  /\ leftOpenAt = [c \in Channels |-> 0]
  /\ removals = [c \in Channels |-> 0]

\* No call of isHalluzination and no clients.delete is looked at.
Idle ==
  /\ input = TxtEmpty
  /\ verdict = "none"
  /\ before = <<>>
  /\ dropped = 0
  /\ repeated = FALSE

Init == Start /\ variant = "translateFirst" /\ Idle

\* ---------------------------------------------------------- the registry
Registered(c) == \E i \in 1..Len(clients) : clients[i] = c

Registry == {clients[i] : i \in 1..Len(clients)}

\* clients.add(ws): a Set keeps one entry per object, in insertion order.
SetAdd(set, c) ==
  IF \E i \in 1..Len(set) : set[i] = c THEN set ELSE Append(set, c)

\* Mutant of SetDelete: the close handler leaves the registry as it is.
SetDeleteNothing(set, c) == set

\* Mutant of SetDelete: the registry as an array, the entry cut out at the
\* index found, which for an absent channel cuts the last entry.
SetDeleteOrLast(set, c) ==
  IF \E i \in 1..Len(set) : set[i] = c
    THEN SelectSeq(set, LAMBDA x : x # c)
    ELSE SubSeq(set, 1, Len(set) - 1)

\* clients.delete(ws)
SetDelete(set, c) == SelectSeq(set, LAMBDA x : x # c)

\* Mutant of Connect: the new channel is sent the last published event.
ConnectReplaysLast(c) ==
  /\ ~crashed
  /\ UNCHANGED auxVars
  /\ readyState[c] = 0
  /\ \A d \in Channels : d < c => readyState[d] # 0
  /\ readyState' = [readyState EXCEPT ![c] = OPEN]
  /\ clients' = SetAdd(clients, c)
  /\ connectedAt' = [connectedAt EXCEPT ![c] = Len(published)]
  /\ received' = [received EXCEPT ![c] =
                    IF published = <<>> THEN @
                    ELSE Append(@, [seq |-> Len(published),
                                    type |-> published[Len(published)].type,
                                    text |-> published[Len(published)].text])]
  /\ UNCHANGED <<apiKey, broken, errPending, leftOpenAt, removals, crashed,
                 published>>
  /\ UNCHANGED subVars

\* wss.on('connection'): a new channel, OPEN, is added to the registry.
\* Channels are numbered in their order of connection.
Connect(c) ==
  /\ ~crashed
  /\ UNCHANGED auxVars
  /\ readyState[c] = 0
  /\ \A d \in Channels : d < c => readyState[d] # 0
  /\ readyState' = [readyState EXCEPT ![c] = OPEN]
  /\ clients' = SetAdd(clients, c)
  /\ connectedAt' = [connectedAt EXCEPT ![c] = Len(published)]
  /\ UNCHANGED <<apiKey, broken, errPending, leftOpenAt, removals, crashed>>
  /\ UNCHANGED subVars
  /\ UNCHANGED pubVars

\* The socket under an OPEN channel dies; ws still reports OPEN, and the
\* next send on it fails with an 'error' event.
SocketBreak(c) ==
  /\ ~crashed
  /\ UNCHANGED auxVars
  /\ readyState[c] = OPEN
  /\ ~broken[c]
  /\ broken' = [broken EXCEPT ![c] = TRUE]
  /\ UNCHANGED <<apiKey, clients, readyState, errPending, connectedAt,
                 leftOpenAt, removals, crashed>>
  /\ UNCHANGED subVars
  /\ UNCHANGED pubVars

\* The closing handshake starts (or ws notices the dead socket): the
\* channel stops being OPEN before its 'close' event is emitted.
BeginClose(c) ==
  /\ ~crashed
  /\ UNCHANGED auxVars
  /\ readyState[c] = OPEN
  /\ readyState' = [readyState EXCEPT ![c] = CLOSING]
  /\ broken' = [broken EXCEPT ![c] = FALSE]
  /\ leftOpenAt' = [leftOpenAt EXCEPT ![c] = Len(published)]
  /\ UNCHANGED <<apiKey, clients, errPending, connectedAt, removals, crashed>>
  /\ UNCHANGED subVars
  /\ UNCHANGED pubVars

\* ws.on('close'): the channel is CLOSED and the handler deletes it.
Close(c) ==
  /\ ~crashed
  /\ UNCHANGED auxVars
  /\ readyState[c] = CLOSING
  /\ readyState' = [readyState EXCEPT ![c] = CLOSED]
  /\ clients' = SetDelete(clients, c)
  /\ removals' = [removals EXCEPT ![c] = @ + (IF Registered(c) THEN 1 ELSE 0)]
  /\ UNCHANGED <<apiKey, broken, errPending, connectedAt, leftOpenAt, crashed>>
  /\ UNCHANGED subVars
  /\ UNCHANGED pubVars

\* Mutant of ErrorHandled: no 'error' listener is registered, so the event
\* is thrown into the event loop.
ErrorUnhandled == FALSE

\* ws.on('error'): the handler logs the error and returns.
ErrorHandled == TRUE

ErrorEvent(c) ==
  /\ ~crashed
  /\ UNCHANGED auxVars
  /\ errPending[c]
  /\ errPending' = [errPending EXCEPT ![c] = FALSE]
  /\ crashed' = ~ErrorHandled
  /\ UNCHANGED <<apiKey, clients, readyState, broken, connectedAt, leftOpenAt,
                 removals>>
  /\ UNCHANGED subVars
  /\ UNCHANGED pubVars

\* --------------------------------------------------------------- publish
\* Mutant of ShouldSend: every registered channel is sent to.
ShouldSendAlways(c) == TRUE

\* Mutant of ShouldSend: only CLOSED channels are skipped.
ShouldSendUnlessClosed(c) == readyState[c] # CLOSED

\* if (client.readyState === 1)
ShouldSend(c) == readyState[c] = OPEN

\* Mutant of wsSend: a send on a dead socket throws into the loop.
wsSendThrowsOnDead(c) ==
  IF readyState[c] # OPEN \/ broken[c] THEN "throw" ELSE "ok"

\* Mutant of wsSend: a send on a broken socket throws after the channels
\* before it were served.
wsSendThrowsOnBroken(c) ==
  IF readyState[c] = OPEN /\ ~broken[c] THEN "ok" ELSE "throw"

\* client.send(msg) without a callback: "ok" hands the message to the
\* viewer; on a dead socket the failure comes back later as an 'error'
\* event; on a channel that is not OPEN ws throws.
wsSend(c) ==
  IF readyState[c] # OPEN THEN "throw"
  ELSE IF broken[c] THEN "error"
  ELSE "ok"

\* The for loop of broadcastSubtitle from the i-th client on. acc.sent: the
\* channels that got the message, acc.failed: those whose send failed,
\* acc.threw: a send threw and ended the loop.
RECURSIVE BroadcastLoop(_, _)
BroadcastLoop(i, acc) ==
  IF i > Len(clients) THEN acc
  ELSE IF ~ShouldSend(clients[i]) THEN BroadcastLoop(i + 1, acc)
  ELSE IF wsSend(clients[i]) = "ok"
    THEN BroadcastLoop(i + 1, [acc EXCEPT !.sent = @ \cup {clients[i]}])
  ELSE IF wsSend(clients[i]) = "error"
    THEN BroadcastLoop(i + 1, [acc EXCEPT !.failed = @ \cup {clients[i]}])
  ELSE [acc EXCEPT !.threw = TRUE]

BroadcastResult ==
  BroadcastLoop(1, [sent |-> {}, failed |-> {}, threw |-> FALSE])

\* broadcastSubtitle(payload), called for submission r. The message is the
\* payload's two fields; seq numbers the call.
broadcastSubtitle(r, payload) ==
  LET b == BroadcastResult
      seq == Len(published) + 1
      msg == [seq |-> seq, type |-> payload.type, text |-> payload.text]
  IN /\ received' = [c \in Channels |->
                       IF c \in b.sent THEN Append(received[c], msg)
                       ELSE received[c]]
     /\ errPending' = [c \in Channels |-> errPending[c] \/ c \in b.failed]
     /\ published' = Append(published,
                       [sub |-> r, type |-> payload.type, text |-> payload.text,
                        registry |-> Registry,
                        open |-> {c \in Registry : readyState[c] = OPEN},
                        dead |-> {c \in Registry :
                                    readyState[c] = OPEN /\ broken[c]},
                        sent |-> b.sent, failed |-> b.failed,
                        threw |-> b.threw])

\* ------------------------------------------------------ POST /transcribe
\* What res.status(..).json(..) sends.
Reply(status, error, german, english, hasFiltered, filtered) ==
  [status |-> status, error |-> error, german |-> german,
   english |-> english, hasFiltered |-> hasFiltered, filtered |-> filtered]

ErrorReply(status, error) ==
  Reply(status, error, TxtEmpty, TxtEmpty, FALSE, TxtEmpty)

\* !req.file is false
HasFile(f) == f # "missing"

\* Mutant of Submit: the 400 response is sent without the return after it,
\* so the handler goes on to the credential check and the provider call.
SubmitFallsThrough(r, f) ==
  /\ ~crashed
  /\ UNCHANGED auxVars
  /\ pc[r] = "new"
  /\ \A q \in Subs : q < r => pc[q] # "new"
  /\ file' = [file EXCEPT ![r] = f]
  /\ IF ~apiKey
       THEN /\ response' = [response EXCEPT ![r] =
                 IF HasFile(f)
                   THEN Append(@, ErrorReply(500, "OPENAI_API_KEY nicht gesetzt"))
                   ELSE <<ErrorReply(400, "Keine Audio-Datei erhalten"),
                          ErrorReply(500, "OPENAI_API_KEY nicht gesetzt")>>]
            /\ outcome' = [outcome EXCEPT ![r] = "Misconfigured"]
            /\ pc' = [pc EXCEPT ![r] = "done"]
            /\ UNCHANGED whisperCalls
     ELSE /\ response' = [response EXCEPT ![r] =
               IF HasFile(f) THEN @
               ELSE Append(@, ErrorReply(400, "Keine Audio-Datei erhalten"))]
          /\ whisperCalls' = [whisperCalls EXCEPT ![r] = @ + 1]
          /\ pc' = [pc EXCEPT ![r] = "transcribing"]
          /\ UNCHANGED outcome
  /\ UNCHANGED <<germanText, englishText, translateCalls, whisperStatus,
                 translateStatus, apiKey, crashed>>
  /\ UNCHANGED busVars
  /\ UNCHANGED pubVars

\* The handler up to its first await: the two checks, then the
\* transcription call. Submissions are numbered in their order of arrival.
Submit(r, f) ==
  /\ ~crashed
  /\ UNCHANGED auxVars
  /\ pc[r] = "new"
  /\ \A q \in Subs : q < r => pc[q] # "new"
  /\ file' = [file EXCEPT ![r] = f]
  /\ IF ~HasFile(f)
       THEN /\ response' = [response EXCEPT ![r] =
                 Append(@, ErrorReply(400, "Keine Audio-Datei erhalten"))]
            /\ outcome' = [outcome EXCEPT ![r] = "BadRequest"]
            /\ pc' = [pc EXCEPT ![r] = "done"]
            /\ UNCHANGED whisperCalls
     ELSE IF ~apiKey
       THEN /\ response' = [response EXCEPT ![r] =
                 Append(@, ErrorReply(500, "OPENAI_API_KEY nicht gesetzt"))]
            /\ outcome' = [outcome EXCEPT ![r] = "Misconfigured"]
            /\ pc' = [pc EXCEPT ![r] = "done"]
            /\ UNCHANGED whisperCalls
     ELSE /\ whisperCalls' = [whisperCalls EXCEPT ![r] = @ + 1]
          /\ pc' = [pc EXCEPT ![r] = "transcribing"]
          /\ UNCHANGED <<response, outcome>>
  /\ UNCHANGED <<germanText, englishText, translateCalls, whisperStatus,
                 translateStatus, apiKey, crashed>>
  /\ UNCHANGED busVars
  /\ UNCHANGED pubVars

\* Mutant of AfterTranscription: the hallucination check is left out.
AfterTranscriptionUnfiltered(text) ==
  IF NoSpeech(text) THEN "NoSpeech" ELSE "Translate"

\* The branch taken after the transcription returned germanText.
AfterTranscription(text) ==
  IF NoSpeech(text) THEN "NoSpeech"
  ELSE IF isHalluzination(text) THEN "Filtered"
  ELSE "Translate"

\* Mutant of WhisperReturns: a transcription response that is not ok makes
\* the handler call the provider once more.
WhisperReturnsRetries(r, resp) ==
  /\ ~crashed
  /\ UNCHANGED auxVars
  /\ pc[r] = "transcribing"
  /\ IF ~resp.ok /\ whisperCalls[r] < 2
       THEN /\ whisperCalls' = [whisperCalls EXCEPT ![r] = @ + 1]
            /\ UNCHANGED <<pc, response, outcome, germanText, translateCalls,
                           file, whisperStatus>>
     ELSE /\ IF ~resp.ok
               THEN /\ response' = [response EXCEPT ![r] =
                         Append(@, ErrorReply(500, "Whisper API Error"))]
                    /\ outcome' = [outcome EXCEPT ![r] = "Failed"]
                    /\ pc' = [pc EXCEPT ![r] = "done"]
                    /\ UNCHANGED <<germanText, translateCalls>>
             ELSE /\ germanText' = [germanText EXCEPT ![r] = resp.text]
                  /\ IF AfterTranscription(resp.text) = "Translate"
                       THEN /\ translateCalls' =
                                 [translateCalls EXCEPT ![r] = @ + 1]
                            /\ pc' = [pc EXCEPT ![r] = "translating"]
                            /\ UNCHANGED <<response, outcome>>
                     ELSE /\ response' = [response EXCEPT ![r] =
                               Append(@, Reply(200, "", TxtEmpty, TxtEmpty,
                                 AfterTranscription(resp.text) = "Filtered",
                                 IF AfterTranscription(resp.text) = "Filtered"
                                   THEN resp.text ELSE TxtEmpty))]
                          /\ outcome' = [outcome EXCEPT ![r] =
                                           AfterTranscription(resp.text)]
                          /\ pc' = [pc EXCEPT ![r] = "done"]
                          /\ UNCHANGED translateCalls
          /\ file' = [file EXCEPT ![r] = "released"]
          /\ whisperStatus' = [whisperStatus EXCEPT ![r] =
                                 IF resp.ok THEN "ok" ELSE "error"]
          /\ UNCHANGED whisperCalls
  /\ UNCHANGED <<englishText, translateStatus, apiKey, crashed>>
  /\ UNCHANGED busVars
  /\ UNCHANGED pubVars

\* The transcription call returns: transcribeWithWhisper throws on a
\* response that is not ok; otherwise the handler runs to its next await
\* or to a return.
WhisperReturns(r, resp) ==
  /\ ~crashed
  /\ UNCHANGED auxVars
  /\ pc[r] = "transcribing"
  /\ IF ~resp.ok
       THEN /\ response' = [response EXCEPT ![r] =
                 Append(@, ErrorReply(500, "Whisper API Error"))]
            /\ outcome' = [outcome EXCEPT ![r] = "Failed"]
            /\ pc' = [pc EXCEPT ![r] = "done"]
            /\ UNCHANGED <<germanText, translateCalls>>
     ELSE /\ germanText' = [germanText EXCEPT ![r] = resp.text]
          /\ IF AfterTranscription(resp.text) = "NoSpeech"
               THEN /\ response' = [response EXCEPT ![r] =
                         Append(@, Reply(200, "", TxtEmpty, TxtEmpty,
                                         FALSE, TxtEmpty))]
                    /\ outcome' = [outcome EXCEPT ![r] = "NoSpeech"]
                    /\ pc' = [pc EXCEPT ![r] = "done"]
                    /\ UNCHANGED translateCalls
             ELSE IF AfterTranscription(resp.text) = "Filtered"
               THEN /\ response' = [response EXCEPT ![r] =
                         Append(@, Reply(200, "", TxtEmpty, TxtEmpty,
                                         TRUE, resp.text))]
                    /\ outcome' = [outcome EXCEPT ![r] = "Filtered"]
                    /\ pc' = [pc EXCEPT ![r] = "done"]
                    /\ UNCHANGED translateCalls
             ELSE /\ translateCalls' = [translateCalls EXCEPT ![r] = @ + 1]
                  /\ pc' = [pc EXCEPT ![r] = "translating"]
                  /\ UNCHANGED <<response, outcome>>
  /\ file' = [file EXCEPT ![r] = "released"]
  /\ whisperStatus' = [whisperStatus EXCEPT ![r] =
                         IF resp.ok THEN "ok" ELSE "error"]
  /\ UNCHANGED <<englishText, whisperCalls, translateStatus, apiKey, crashed>>
  /\ UNCHANGED busVars
  /\ UNCHANGED pubVars

\* Mutant of TranslationSucceeds: response.ok is not looked at.
TranslationIgnoresStatus(resp) == TRUE

\* translateToEnglish returns a text: the response is ok and has
\* choices[0].message.content; otherwise it throws.
TranslationSucceeds(resp) == resp.ok /\ resp.shaped

\* Mutant of TranslationEvent: the immediate publish is marked "final".
TranslationEventAsFinal(text) == [type |-> "final", text |-> text]

\* The payload of the immediate publish.
TranslationEvent(text) == [type |-> "translation", text |-> text]

\* Mutant of FinalEvent: the delayed publish repeats the "translation" type.
FinalEventRepeatsType(text) == [type |-> "translation", text |-> text]

\* The payload of the delayed publish.
FinalEvent(text) == [type |-> "final", text |-> text]

\* The translation call returns: on success the handler publishes the
\* translation, sets the timer and responds; an exception, also one out of
\* broadcastSubtitle, lands in the catch block.
TranslateReturns(r, resp) ==
  /\ ~crashed
  /\ UNCHANGED auxVars
  /\ pc[r] = "translating"
  /\ IF ~TranslationSucceeds(resp)
       THEN /\ response' = [response EXCEPT ![r] =
                 Append(@, ErrorReply(500, IF resp.ok THEN "TypeError"
                                           ELSE "Translation API Error"))]
            /\ outcome' = [outcome EXCEPT ![r] = "Failed"]
            /\ pc' = [pc EXCEPT ![r] = "done"]
            /\ UNCHANGED englishText
            /\ UNCHANGED pubVars
            /\ UNCHANGED errPending
     ELSE /\ englishText' = [englishText EXCEPT ![r] = Trim(resp.content)]
          /\ broadcastSubtitle(r, TranslationEvent(Trim(resp.content)))
          /\ IF BroadcastResult.threw
               THEN /\ response' = [response EXCEPT ![r] =
                         Append(@, ErrorReply(500, "Error"))]
                    /\ outcome' = [outcome EXCEPT ![r] = "Failed"]
                    /\ pc' = [pc EXCEPT ![r] = "done"]
             ELSE /\ response' = [response EXCEPT ![r] =
                       Append(@, Reply(200, "", germanText[r],
                                       Trim(resp.content), FALSE, TxtEmpty))]
                  /\ outcome' = [outcome EXCEPT ![r] = "Success"]
                  /\ pc' = [pc EXCEPT ![r] = "scheduled"]
  /\ translateStatus' = [translateStatus EXCEPT ![r] =
                           IF ~resp.ok THEN "error"
                           ELSE IF ~resp.shaped THEN "malformed"
                           ELSE "ok"]
  /\ UNCHANGED <<file, germanText, whisperCalls, translateCalls,
                 whisperStatus, apiKey, crashed>>
  /\ UNCHANGED <<clients, readyState, broken, connectedAt, leftOpenAt,
                 removals>>

\* Mutant of TimerFires: englishText is one variable of the module, so the
\* callback publishes the text of the translation that returned last.
TimerFiresSharedText(r) ==
  /\ ~crashed
  /\ UNCHANGED auxVars
  /\ pc[r] = "scheduled"
  /\ broadcastSubtitle(r, FinalEvent(published[Len(published)].text))
  /\ crashed' = BroadcastResult.threw
  /\ pc' = [pc EXCEPT ![r] = "done"]
  /\ UNCHANGED <<file, germanText, englishText, response, whisperCalls,
                 translateCalls, outcome, whisperStatus, translateStatus,
                 apiKey>>
  /\ UNCHANGED <<clients, readyState, broken, connectedAt, leftOpenAt,
                 removals>>

\* Mutant of TimerFires: the publish drops the channels it skips.
TimerFiresPrunes(r) ==
  /\ ~crashed
  /\ UNCHANGED auxVars
  /\ pc[r] = "scheduled"
  /\ broadcastSubtitle(r, FinalEvent(englishText[r]))
  /\ crashed' = BroadcastResult.threw
  /\ pc' = [pc EXCEPT ![r] = "done"]
  /\ clients' = SelectSeq(clients, LAMBDA c : readyState[c] = OPEN)
  /\ UNCHANGED <<file, germanText, englishText, response, whisperCalls,
                 translateCalls, outcome, whisperStatus, translateStatus,
                 apiKey>>
  /\ UNCHANGED <<readyState, broken, connectedAt, leftOpenAt, removals>>

\* Mutant of TimerFires: the timer is dropped when nobody is registered.
TimerFiresIfViewers(r) ==
  /\ ~crashed
  /\ UNCHANGED auxVars
  /\ pc[r] = "scheduled"
  /\ clients # <<>>
  /\ broadcastSubtitle(r, FinalEvent(englishText[r]))
  /\ crashed' = BroadcastResult.threw
  /\ pc' = [pc EXCEPT ![r] = "done"]
  /\ UNCHANGED <<file, germanText, englishText, response, whisperCalls,
                 translateCalls, outcome, whisperStatus, translateStatus,
                 apiKey>>
  /\ UNCHANGED <<clients, readyState, broken, connectedAt, leftOpenAt,
                 removals>>

\* The setTimeout callback: the delayed publish. Nothing catches what it
\* throws.
TimerFires(r) ==
  /\ ~crashed
  /\ UNCHANGED auxVars
  /\ pc[r] = "scheduled"
  /\ broadcastSubtitle(r, FinalEvent(englishText[r]))
  /\ crashed' = BroadcastResult.threw
  /\ pc' = [pc EXCEPT ![r] = "done"]
  /\ UNCHANGED <<file, germanText, englishText, response, whisperCalls,
                 translateCalls, outcome, whisperStatus, translateStatus,
                 apiKey>>
  /\ UNCHANGED <<clients, readyState, broken, connectedAt, leftOpenAt,
                 removals>>

\* ----------------------------------------------------------- specification
Next ==
  \/ \E r \in Subs : \E f \in Files : Submit(r, f)
  \/ \E r \in Subs : \E resp \in WhisperResponses : WhisperReturns(r, resp)
  \/ \E r \in Subs : \E resp \in TranslateResponses : TranslateReturns(r, resp)
  \/ \E r \in Subs : TimerFires(r)
  \/ \E c \in Channels : Connect(c)
  \/ \E c \in Channels : SocketBreak(c)
  \/ \E c \in Channels : BeginClose(c)
  \/ \E c \in Channels : Close(c)
  \/ \E c \in Channels : ErrorEvent(c)

Spec == Init /\ [][Next]_vars

\* A provider call returns or fails and a timer that is set fires: fetch
\* settles its promise and the event loop runs every due callback.
Fairness ==
  \A r \in Subs :
    /\ WF_vars(\E resp \in WhisperResponses : WhisperReturns(r, resp))
    /\ WF_vars(\E resp \in TranslateResponses : TranslateReturns(r, resp))
    /\ WF_vars(TimerFires(r))

FairSpec == Init /\ [][Next]_vars /\ Fairness

\* ------------------------------------------------ isHalluzination alone
\* The characters of the generated arguments.
FilterAlphabet == {"a", "r", "d", "Z", "f", " "}

MaxText == 3

\* Texts that a rule of HALLUZINATION_PATTERNS matches once trimmed, or that
\* are shorter than three characters once trimmed.
DenylistSamples ==
  {<<"C","o","p","y","r","i","g","h","t"," ","2","0","2","4"," ","W","D","R">>,
   <<"U","n","t","e","r","t","i","t","e","l"," ","v","o","n"," ","A","m","a",
      "r","a">>,
   <<"T","h","a","n","k","s"," ","f","o","r"," ","w","a","t","c","h","i","n",
      "g","!">>,
   <<"V","i","e","l","e","n"," ","D","a","n","k"," ","b","e","i","m"," ","Z",
      "u","s","c","h","a","u","e","n">>,
   <<"P","l","e","a","s","e"," ","S","U","B","S","C","R","I","B","E">>,
   <<"l","i","k","e"," ","a","n","d"," ","c","o","m","m","e","n","t">>,
   <<"S","t","e","p","h","a","n","i","e"," ","G","e","i","g","e","s">>,
   <<"W","D","R"," ","2">>,
   <<"w","d","r","1","2">>,
   <<" ","A","R","D"," ">>,
   <<"Z","d","f","\n">>,
   <<" ","a"," ">>}

\* Texts of three characters or more that no rule matches: ordinary
\* speech, and near misses of the rules (too few digits, a line break
\* where the rule has ".", text around an anchored rule).
SpeechSamples ==
  {<<"H","a","l","l","o"," ","z","u","s","a","m","m","e","n">>,
   <<"W","D","R">>,
   <<"a","r","d","x">>,
   <<"d","a","s"," ","a","r","d">>,
   <<"C","o","p","y","r","i","g","h","t"," ","2","0","2">>,
   <<"U","n","t","e","r","t","i","t","e","l","\n","v","o","n">>,
   <<"w","d","r"," ","2"," ","x">>,
   <<"w","d","r","2","\n","3">>}

\* The arguments the call is made with: every text of up to MaxText
\* characters of the alphabet, and the samples.
FilterInputs ==
  UNION {[1..k -> FilterAlphabet] : k \in 0..MaxText}
    \cup DenylistSamples \cup SpeechSamples

FilterInit ==
  /\ Start
  /\ variant = "translateFirst"
  /\ input \in FilterInputs
  /\ verdict = "none"
  /\ before = <<>>
  /\ dropped = 0
  /\ repeated = FALSE

\* One call isHalluzination(input).
FilterCall ==
  /\ verdict = "none"
  /\ verdict' = IF isHalluzination(input) THEN "true" ELSE "false"
  /\ UNCHANGED <<apiKey, crashed, variant, input, before, dropped, repeated>>
  /\ UNCHANGED subVars
  /\ UNCHANGED busVars
  /\ UNCHANGED pubVars

FilterNext == FilterCall

FilterSpec == FilterInit /\ [][FilterNext]_vars

\* -------------------------------- POST /transcribe of src/unnamed/part_000
\* The two server files.
Variants == {"translateFirst", "sourcePartial"}

\* The mark put before the transcript; "DE" stands for the flag.
PartialPrefix == <<"[", "DE", "]", " ">>

\* Mutant of PartialEvent: the transcript is published as it came, as a
\* "final".
PartialEventUnmarked(text) == [type |-> "final", text |-> text]

\* The payload of the publish made before the translation call.
PartialEvent(text) == [type |-> "partial", text |-> PartialPrefix \o text]

\* The payload of the publish made when the translation returned.
TranslatedEvent(text) == [type |-> "final", text |-> text]

\* The transcription call returns in part_000: a transcript that is not
\* blank is published as it is, no filter asked, and the translation call
\* follows in the same run.
WhisperReturnsPartial(r, resp) ==
  /\ ~crashed
  /\ UNCHANGED auxVars
  /\ variant = "sourcePartial"
  /\ pc[r] = "transcribing"
  /\ IF ~resp.ok
       THEN /\ response' = [response EXCEPT ![r] =
                 Append(@, ErrorReply(500, "Whisper API Error"))]
            /\ outcome' = [outcome EXCEPT ![r] = "Failed"]
            /\ pc' = [pc EXCEPT ![r] = "done"]
            /\ UNCHANGED <<germanText, translateCalls, errPending>>
            /\ UNCHANGED pubVars
     ELSE /\ germanText' = [germanText EXCEPT ![r] = resp.text]
          /\ IF NoSpeech(resp.text)
               THEN /\ response' = [response EXCEPT ![r] =
                         Append(@, Reply(200, "", TxtEmpty, TxtEmpty,
                                         FALSE, TxtEmpty))]
                    /\ outcome' = [outcome EXCEPT ![r] = "NoSpeech"]
                    /\ pc' = [pc EXCEPT ![r] = "done"]
                    /\ UNCHANGED <<translateCalls, errPending>>
                    /\ UNCHANGED pubVars
             ELSE /\ broadcastSubtitle(r, PartialEvent(resp.text))
                  /\ IF BroadcastResult.threw
                       THEN /\ response' = [response EXCEPT ![r] =
                                 Append(@, ErrorReply(500, "Error"))]
                            /\ outcome' = [outcome EXCEPT ![r] = "Failed"]
                            /\ pc' = [pc EXCEPT ![r] = "done"]
                            /\ UNCHANGED translateCalls
                     ELSE /\ translateCalls' =
                               [translateCalls EXCEPT ![r] = @ + 1]
                          /\ pc' = [pc EXCEPT ![r] = "translating"]
                          /\ UNCHANGED <<response, outcome>>
  /\ file' = [file EXCEPT ![r] = "released"]
  /\ whisperStatus' = [whisperStatus EXCEPT ![r] =
                         IF resp.ok THEN "ok" ELSE "error"]
  /\ UNCHANGED <<englishText, whisperCalls, translateStatus, apiKey, crashed>>
  /\ UNCHANGED <<clients, readyState, broken, connectedAt, leftOpenAt,
                 removals>>

\* The translation call returns in part_000: on success the handler
\* publishes the "final" and responds; no timer is set.
TranslateReturnsPartial(r, resp) ==
  /\ ~crashed
  /\ UNCHANGED auxVars
  /\ variant = "sourcePartial"
  /\ pc[r] = "translating"
  /\ IF ~TranslationSucceeds(resp)
       THEN /\ response' = [response EXCEPT ![r] =
                 Append(@, ErrorReply(500, IF resp.ok THEN "TypeError"
                                           ELSE "Translation API Error"))]
            /\ outcome' = [outcome EXCEPT ![r] = "Failed"]
            /\ UNCHANGED <<englishText, errPending>>
            /\ UNCHANGED pubVars
     ELSE /\ englishText' = [englishText EXCEPT ![r] = Trim(resp.content)]
          /\ broadcastSubtitle(r, TranslatedEvent(Trim(resp.content)))
          /\ IF BroadcastResult.threw
               THEN /\ response' = [response EXCEPT ![r] =
                         Append(@, ErrorReply(500, "Error"))]
                    /\ outcome' = [outcome EXCEPT ![r] = "Failed"]
             ELSE /\ response' = [response EXCEPT ![r] =
                       Append(@, Reply(200, "", germanText[r],
                                       Trim(resp.content), FALSE, TxtEmpty))]
                  /\ outcome' = [outcome EXCEPT ![r] = "Success"]
  /\ pc' = [pc EXCEPT ![r] = "done"]
  /\ translateStatus' = [translateStatus EXCEPT ![r] =
                           IF ~resp.ok THEN "error"
                           ELSE IF ~resp.shaped THEN "malformed"
                           ELSE "ok"]
  /\ UNCHANGED <<file, germanText, whisperCalls, translateCalls,
                 whisperStatus, apiKey, crashed>>
  /\ UNCHANGED <<clients, readyState, broken, connectedAt, leftOpenAt,
                 removals>>

\* Either file is started.
VariantsInit == Start /\ variant \in Variants /\ Idle

\* The handler up to the transcription call and the bus are the same text
\* in both files. Sockets stay alive here: a failed send changes no publish,
\* and Spec has it.
VariantsNext ==
  \/ \E r \in Subs : \E f \in Files : Submit(r, f)
  \/ /\ variant = "translateFirst"
     /\ \E r \in Subs : \E resp \in WhisperResponses : WhisperReturns(r, resp)
  \/ /\ variant = "translateFirst"
     /\ \E r \in Subs : \E resp \in TranslateResponses :
          TranslateReturns(r, resp)
  \/ \E r \in Subs : TimerFires(r)
  \/ \E r \in Subs : \E resp \in WhisperResponses :
       WhisperReturnsPartial(r, resp)
  \/ \E r \in Subs : \E resp \in TranslateResponses :
       TranslateReturnsPartial(r, resp)
  \/ \E c \in Channels : Connect(c)
  \/ \E c \in Channels : BeginClose(c)
  \/ \E c \in Channels : Close(c)

VariantsSpec == VariantsInit /\ [][VariantsNext]_vars

\* ----------------------------------------------------- the registry alone
MaxRegistered == 4

\* The channels the registry is tried with.
Sockets == 1..MaxRegistered

RegistryInit == Start /\ variant = "translateFirst" /\ Idle

\* clients.add(ws), what the connection callback does to the registry.
clientsAdd(c) ==
  /\ clients' = SetAdd(clients, c)
  /\ before' = <<>>
  /\ dropped' = 0
  /\ repeated' = FALSE
  /\ UNCHANGED <<apiKey, crashed, variant, input, verdict>>
  /\ UNCHANGED subVars
  /\ UNCHANGED <<readyState, broken, errPending, connectedAt, leftOpenAt,
                 removals>>
  /\ UNCHANGED pubVars

\* clients.delete(ws), what the close handler does to the registry, be the
\* channel in it or not.
clientsDelete(c) ==
  /\ clients' = SetDelete(clients, c)
  /\ before' = clients
  /\ dropped' = c
  /\ repeated' = (dropped = c)
  /\ UNCHANGED <<apiKey, crashed, variant, input, verdict>>
  /\ UNCHANGED subVars
  /\ UNCHANGED <<readyState, broken, errPending, connectedAt, leftOpenAt,
                 removals>>
  /\ UNCHANGED pubVars

RegistryNext ==
  \/ \E c \in Sockets : clientsAdd(c)
  \/ \E c \in Sockets : clientsDelete(c)

RegistrySpec == RegistryInit /\ [][RegistryNext]_vars

TypeOK ==
  /\ apiKey \in BOOLEAN
  /\ \A c \in Channels : readyState[c] \in {0, OPEN, CLOSING, CLOSED}
  /\ \A r \in Subs : pc[r] \in {"new", "transcribing", "translating",
                                "scheduled", "done"}
  /\ \A r \in Subs : Len(response[r]) <= 1
  /\ ~crashed

\* ================================================================ claims
\* The numbers of the publishes made for submission r.
SeqsOf(r) == {i \in 1..Len(published) : published[i].sub = r}

\* The publishes made for submission r, in order.
EventsOf(r) == SelectSeq(published, LAMBDA p : p.sub = r)

\* Channel c got publish i, with the type and text published.
Delivered(c, i) ==
  \E k \in 1..Len(received[c]) :
    /\ received[c][k].seq = i
    /\ received[c][k].type = published[i].type
    /\ received[c][k].text = published[i].text

\* NoSpeech and isHalluzination on every transcript the provider returns
\* here, computed once.
BlankTable == [t \in Transcripts |-> NoSpeech(t)]
FilterTable == [t \in Transcripts |-> isHalluzination(t)]

\* The transcription of r returned an empty or blank transcript.
Silent(r) == whisperStatus[r] = "ok" /\ BlankTable[germanText[r]]

\* The transcription of r returned a transcript the filter rejects.
Rejected(r) ==
  /\ whisperStatus[r] = "ok"
  /\ ~BlankTable[germanText[r]]
  /\ FilterTable[germanText[r]]

\* The transcription of r returned a transcript that is neither empty nor
\* rejected by the filter.
Accepted(r) ==
  /\ whisperStatus[r] = "ok"
  /\ ~BlankTable[germanText[r]]
  /\ ~FilterTable[germanText[r]]

\* The last response sent for r is an error response.
ErrorResponse(r) ==
  /\ Len(response[r]) >= 1
  /\ response[r][Len(response[r])].status >= 400
  /\ response[r][Len(response[r])].error # ""

\* The last response sent for r is a success response.
SuccessResponse(r) ==
  /\ Len(response[r]) >= 1
  /\ response[r][Len(response[r])].status = 200
  /\ response[r][Len(response[r])].error = ""

\* C1: a submission with an accepted transcript and a successful translation
\* publishes "translation" with the translated text when the translation
\* returns, publishes "final" with the same text when its timer has fired,
\* and never publishes a third event.
C1_TwoEventsSameText ==
  \A r \in Subs :
    (Accepted(r) /\ translateStatus[r] = "ok") =>
      LET ev == EventsOf(r)
      IN /\ Len(ev) \in {1, 2}
         /\ ev[1].type = "translation"
         /\ ev[1].text = englishText[r]
         /\ pc[r] = "scheduled" => Len(ev) = 1
         /\ pc[r] = "done" =>
              /\ Len(ev) = 2
              /\ ev[2].type = "final"
              /\ ev[2].text = ev[1].text

\* A successful submission has made both publishes and a viewer got both.
C1_Witness ==
  \E r \in Subs : \E c \in Channels :
    /\ Accepted(r) /\ translateStatus[r] = "ok"
    /\ pc[r] = "done"
    /\ Len(EventsOf(r)) = 2
    /\ \A i \in SeqsOf(r) : Delivered(c, i)

\* C2: a submission whose transcript is empty, blank or rejected by the
\* filter publishes nothing, has no timer pending, never called the
\* translation provider and was answered with a success response.
C2_SilentOutcomes ==
  \A r \in Subs :
    (Silent(r) \/ Rejected(r)) =>
      /\ SeqsOf(r) = {}
      /\ pc[r] = "done"
      /\ translateCalls[r] = 0
      /\ translateStatus[r] = "none"
      /\ Len(response[r]) = 1
      /\ SuccessResponse(r)

\* One submission ended NoSpeech and another Filtered, with a viewer open.
C2_Witness ==
  \E r \in Subs : \E q \in Subs : \E c \in Channels :
    /\ Silent(r)
    /\ Rejected(q)
    /\ response[q][1].hasFiltered /\ response[q][1].filtered = TxtArd
    /\ readyState[c] = OPEN

\* C3: a submission whose transcription or translation call got a response
\* that is not ok has ended Failed with an error response, has published
\* nothing and has no timer pending.
C3_ProviderFailure ==
  \A r \in Subs :
    (whisperStatus[r] = "error" \/ translateStatus[r] = "error") =>
      /\ outcome[r] = "Failed"
      /\ pc[r] = "done"
      /\ ErrorResponse(r)
      /\ SeqsOf(r) = {}

\* A translation call failed while a viewer was open, and a transcription
\* call failed.
C3_Witness ==
  \E r \in Subs : \E q \in Subs : \E c \in Channels :
    /\ translateStatus[r] = "error"
    /\ whisperStatus[q] = "error"
    /\ readyState[c] = OPEN /\ ~broken[c]

\* C4: every publish completes without throwing and reaches every channel
\* that is registered and OPEN when it runs, the dead sockets apart; an
\* empty registry and channels that are not OPEN do not make it fail.
C4_PublishReachesOpen ==
  \A i \in 1..Len(published) :
    /\ ~published[i].threw
    /\ \A c \in published[i].open \ published[i].dead :
         c \in published[i].sent /\ Delivered(c, i)

\* One publish met an empty registry; another skipped a registered channel
\* that was not OPEN and reached an open one.
C4_Witness ==
  /\ \E i \in 1..Len(published) : published[i].registry = {}
  /\ \E i \in 1..Len(published) : \E c \in Channels : \E d \in Channels :
       /\ c \in published[i].registry \ published[i].open
       /\ d \in published[i].sent

\* C5: in a publish that meets a dead socket, the send on it fails alone:
\* the publish does not throw and every other open channel gets the event.
C5_FailureIsolated ==
  \A i \in 1..Len(published) :
    published[i].dead # {} =>
      /\ ~published[i].threw
      /\ published[i].failed = published[i].dead
      /\ \A d \in published[i].open \ published[i].dead :
           d \in published[i].sent /\ Delivered(d, i)

\* The send failed on the channel that is first in the registry and the
\* channel after it got the event.
C5_Witness ==
  \E i \in 1..Len(published) :
    /\ 1 \in published[i].failed
    /\ 2 \in published[i].sent
    /\ Delivered(2, i)

\* Submission r succeeded and both its publishes are made.
Completed(r) ==
  /\ Accepted(r) /\ translateStatus[r] = "ok"
  /\ pc[r] = "done"
  /\ Cardinality(SeqsOf(r)) = 2

\* The position in received[c] of publish i, 0 when c did not get it.
PosOf(c, i) ==
  IF \E k \in 1..Len(received[c]) : received[c][k].seq = i
    THEN CHOOSE k \in 1..Len(received[c]) : received[c][k].seq = i
    ELSE 0

\* C6: every viewer sees events in the order of their publishes, and a
\* channel that is OPEN at both publishes of a completed submission, its
\* socket alive, has got that submission's "translation" and, after it,
\* its "final".
C6_TranslationBeforeFinal ==
  /\ \A c \in Channels : \A k \in 1..Len(received[c]) :
       \A l \in 1..Len(received[c]) :
         k < l => received[c][k].seq < received[c][l].seq
  /\ \A r \in Subs : Completed(r) =>
       \A i \in SeqsOf(r) : \A j \in SeqsOf(r) : \A c \in Channels :
         (/\ i < j
          /\ c \in published[i].open
          /\ c \in published[j].open \ published[j].dead) =>
           /\ PosOf(c, i) > 0
           /\ PosOf(c, i) < PosOf(c, j)
           /\ received[c][PosOf(c, i)].type = "translation"
           /\ received[c][PosOf(c, j)].type = "final"
           /\ received[c][PosOf(c, i)].text = received[c][PosOf(c, j)].text

\* A viewer got a submission's two events with an event of the other
\* submission between them, while another channel connected in between.
C6_Witness ==
  \E r \in Subs : \E c \in Channels : \E d \in Channels :
    \E i \in SeqsOf(r) : \E j \in SeqsOf(r) :
      /\ Completed(r)
      /\ j = i + 2
      /\ PosOf(c, i) > 0 /\ PosOf(c, i + 1) > 0 /\ PosOf(c, j) > 0
      /\ d # c
      /\ d \notin published[i].registry
      /\ d \in published[j].registry

\* A send to channel c has failed.
SendFailed(c) == \E i \in 1..Len(published) : c \in published[i].failed

\* C7 as stated: the registry holds exactly the channels that have
\* connected, whose close event has not run, and that had no send failure.
C7_RemovedOnSendFailure ==
  Registry = {c \in Channels : /\ readyState[c] # 0
                               /\ readyState[c] # CLOSED
                               /\ ~SendFailed(c)}

\* C7 amended: a channel leaves the registry once, in its close event, and
\* a failed send leaves it registered: the registry holds, once each, the
\* channels that have connected and whose close event has not run.
C7_RemovedOnCloseOnly ==
  /\ Registry = {c \in Channels : readyState[c] \in {OPEN, CLOSING}}
  /\ Len(clients) = Cardinality(Registry)
  /\ \A c \in Channels :
       removals[c] = IF readyState[c] = CLOSED THEN 1 ELSE 0

\* One channel is still registered after a failed send, another has been
\* removed by its close event.
C7_Witness ==
  \E c \in Channels : \E d \in Channels :
    /\ SendFailed(c) /\ Registered(c)
    /\ readyState[d] = CLOSED /\ ~Registered(d) /\ removals[d] = 1

\* C8: a channel that has left OPEN gets no event published afterwards, no
\* channel gets a publish twice, and a publish that meets a channel that is
\* not OPEN neither throws nor misses an open channel.
C8_DisconnectDuringFanout ==
  /\ \A c \in Channels : readyState[c] \in {CLOSING, CLOSED} =>
       \A k \in 1..Len(received[c]) : received[c][k].seq <= leftOpenAt[c]
  /\ \A c \in Channels : \A k \in 1..Len(received[c]) :
       \A l \in 1..Len(received[c]) :
         k # l => received[c][k].seq # received[c][l].seq
  /\ \A i \in 1..Len(published) :
       /\ published[i].sent \subseteq published[i].open
       /\ published[i].registry # published[i].open =>
            /\ ~published[i].threw
            /\ published[i].open \ published[i].dead \subseteq published[i].sent

\* A channel that had got an event left OPEN, and a later publish, which
\* met it still registered, reached the other channel.
C8_Witness ==
  \E c \in Channels : \E d \in Channels : \E i \in 1..Len(published) :
    /\ readyState[c] \in {CLOSING, CLOSED}
    /\ Len(received[c]) >= 1
    /\ leftOpenAt[c] < i
    /\ c \in published[i].registry
    /\ d # c
    /\ Delivered(d, i)

\* C9: a channel gets only events published after it connected; one that
\* connects between the two publishes of a submission gets the "final" (its
\* socket alive) and not the "translation".
C9_NoBacklog ==
  /\ \A c \in Channels : \A k \in 1..Len(received[c]) :
       received[c][k].seq > connectedAt[c]
  /\ \A r \in Subs : \A i \in SeqsOf(r) : \A j \in SeqsOf(r) :
       \A c \in Channels :
         (/\ i < j
          /\ readyState[c] # 0
          /\ i <= connectedAt[c] /\ connectedAt[c] < j
          /\ c \in published[j].open \ published[j].dead) =>
           /\ Delivered(c, j)
           /\ published[j].type = "final"
           /\ PosOf(c, i) = 0

\* A channel connected between the two publishes of a submission and got
\* the "final" alone.
C9_Witness ==
  \E r \in Subs : \E i \in SeqsOf(r) : \E j \in SeqsOf(r) : \E c \in Channels :
    /\ i < j
    /\ readyState[c] # 0
    /\ i <= connectedAt[c] /\ connectedAt[c] < j
    /\ Delivered(c, j)
    /\ Len(received[c]) = 1

\* C10 as stated: a submission whose clip is missing or empty has ended
\* BadRequest, and one with a clip but no credential has ended
\* Misconfigured, both without a provider call or a publish.
C10_FailFast ==
  \A r \in Subs : pc[r] # "new" =>
    /\ file[r] \in {"missing", "empty"} =>
         /\ outcome[r] = "BadRequest"
         /\ response[r][1].status = 400
         /\ whisperCalls[r] = 0 /\ translateCalls[r] = 0
         /\ SeqsOf(r) = {}
    /\ (file[r] = "clip" /\ ~apiKey) =>
         /\ outcome[r] = "Misconfigured"
         /\ response[r][1].status = 500
         /\ whisperCalls[r] = 0 /\ translateCalls[r] = 0
         /\ SeqsOf(r) = {}

\* The part of C10 the handler keeps: a missing clip ends BadRequest, also
\* without a credential, and a present clip without a credential ends
\* Misconfigured, both without a provider call or a publish.
C10_MissingClipOrCredential ==
  \A r \in Subs : pc[r] # "new" =>
    /\ file[r] = "missing" =>
         /\ outcome[r] = "BadRequest"
         /\ response[r][1].status = 400
         /\ whisperCalls[r] = 0 /\ translateCalls[r] = 0
         /\ SeqsOf(r) = {}
    /\ ~apiKey =>
         /\ outcome[r] \in {"BadRequest", "Misconfigured"}
         /\ outcome[r] = "Misconfigured" => response[r][1].status = 500
         /\ whisperCalls[r] = 0 /\ translateCalls[r] = 0
         /\ SeqsOf(r) = {}

\* C11: while the timer of a submission is pending, its one success
\* response is sent and its "translation" alone is published, and the timer
\* can fire whatever the registry holds; a "final" is published only for a
\* submission already answered, after its "translation".
C11_FinalDetached ==
  \A r \in Subs :
    /\ pc[r] = "scheduled" =>
         /\ Len(response[r]) = 1 /\ SuccessResponse(r)
         /\ Cardinality(SeqsOf(r)) = 1
         /\ \A i \in SeqsOf(r) : published[i].type = "translation"
         /\ ENABLED TimerFires(r)
    /\ \A j \in SeqsOf(r) : published[j].type = "final" =>
         /\ pc[r] = "done"
         /\ Len(response[r]) = 1 /\ SuccessResponse(r)
         /\ \E i \in SeqsOf(r) : i < j /\ published[i].type = "translation"
    /\ (SuccessResponse(r) /\ outcome[r] = "Success") =>
         /\ pc[r] \in {"scheduled", "done"}
         /\ \E i \in SeqsOf(r) : published[i].type = "translation"

\* The "final" of an answered submission was published after a channel
\* connected and another left OPEN since its "translation", and reached the
\* newcomer.
C11_Witness ==
  \E r \in Subs : \E i \in SeqsOf(r) : \E j \in SeqsOf(r) :
    \E c \in Channels : \E d \in Channels :
      /\ pc[r] = "done" /\ SuccessResponse(r)
      /\ i < j /\ published[j].type = "final"
      /\ c # d
      /\ i <= connectedAt[c] /\ connectedAt[c] < j
      /\ readyState[d] \in {CLOSING, CLOSED}
      /\ i <= leftOpenAt[d] /\ leftOpenAt[d] < j
      /\ Delivered(c, j)

\* A provider call of r failed: a response that is not ok, or a translation
\* response without choices[0].message.content.
ProviderFailed(r) ==
  \/ whisperStatus[r] = "error"
  \/ translateStatus[r] \in {"error", "malformed"}

\* A send failed, or threw, in a publish of r.
PublishFailed(r) ==
  \E i \in SeqsOf(r) : published[i].failed # {} \/ published[i].threw

\* Submission r waits for a provider call or for its timer.
InFlight(r) == pc[r] \in {"transcribing", "translating", "scheduled"}

\* The step that resumes the handler of r.
Resume(r) ==
  \/ \E resp \in WhisperResponses : WhisperReturns(r, resp)
  \/ \E resp \in TranslateResponses : TranslateReturns(r, resp)
  \/ TimerFires(r)

\* C12 as stated: every failure, of a provider call or of a send in a
\* publish, ends its submission with an error response, and the process
\* goes on.
C12_EveryFailureReported ==
  /\ ~crashed
  /\ \A r \in Subs : (ProviderFailed(r) \/ PublishFailed(r)) =>
       /\ outcome[r] = "Failed"
       /\ pc[r] = "done"
       /\ ErrorResponse(r)

\* C12 amended: a provider failure ends its submission alone, with one
\* error response; a failed send in a publish is no failure of the
\* submission, which is answered with success and keeps its timer; neither
\* crashes the process, neither takes a channel out of the registry, and
\* every other submission in flight can still resume.
C12_FailuresContained ==
  /\ ~crashed
  /\ \A r \in Subs : ProviderFailed(r) =>
       /\ outcome[r] = "Failed"
       /\ pc[r] = "done"
       /\ Len(response[r]) = 1
       /\ ErrorResponse(r)
  /\ \A r \in Subs : PublishFailed(r) =>
       /\ ~ProviderFailed(r)
       /\ outcome[r] = "Success"
       /\ SuccessResponse(r)
       /\ pc[r] \in {"scheduled", "done"}
       /\ \A i \in SeqsOf(r) : ~published[i].threw
  /\ \A c \in Channels : SendFailed(c) =>
       (Registered(c) <=> readyState[c] \in {OPEN, CLOSING})
  /\ \A q \in Subs : InFlight(q) => ENABLED Resume(q)

\* A submission failed at its translation call, the other completed with a
\* failed send in its "translation" publish and got both events to a
\* viewer, and the 'error' event of the failed send has been handled.
C12_Witness ==
  \E r \in Subs : \E q \in Subs : \E c \in Channels : \E d \in Channels :
    /\ translateStatus[r] = "error" /\ ErrorResponse(r)
    /\ Completed(q) /\ PublishFailed(q)
    /\ \A i \in SeqsOf(q) : Delivered(d, i)
    /\ SendFailed(c) /\ ~errPending[c]

\* C13: no publish is made for a submission answered with an error
\* response, and no viewer holds an event of it.
C13_NoEventOnError ==
  \A r \in Subs : ErrorResponse(r) =>
    /\ SeqsOf(r) = {}
    /\ \A c \in Channels : \A k \in 1..Len(received[c]) :
         published[received[c][k].seq].sub # r

\* A submission failed at its translation call, its last step before a
\* publish, while a viewer connected from the start got both events of the
\* other submission and nothing else.
C13_Witness ==
  \E r \in Subs : \E q \in Subs : \E c \in Channels :
    /\ ErrorResponse(r) /\ translateStatus[r] = "malformed"
    /\ Completed(q)
    /\ readyState[c] = OPEN /\ connectedAt[c] = 0
    /\ Len(received[c]) = 2

\* C16: a submission in flight never keeps another from arriving or from
\* resuming; every publish of a submission carries the text translated for
\* that submission, the one its caller was answered with, and a submission
\* publishes at most one "translation" and one "final".
C16_Independent ==
  /\ \A q \in Subs :
       /\ InFlight(q) => ENABLED Resume(q)
       /\ (pc[q] = "new" /\ \A r \in Subs : r < q => pc[r] # "new") =>
            ENABLED (\E f \in Files : Submit(q, f))
  /\ \A r \in Subs :
       /\ \A i \in SeqsOf(r) :
            /\ translateStatus[r] = "ok"
            /\ published[i].text = englishText[r]
            /\ published[i].text = response[r][1].english
       /\ \A i \in SeqsOf(r) : \A j \in SeqsOf(r) :
            i # j => published[i].type # published[j].type
       /\ Cardinality(SeqsOf(r)) <= 2
  /\ \A c \in Channels : \A k \in 1..Len(received[c]) :
       received[c][k].text = englishText[published[received[c][k].seq].sub]

\* The second submission published its "translation" before the first,
\* suspended until then, published its own with another text; the "final"
\* of the second came before that of the first, and a viewer got all four.
C16_Witness ==
  \E c \in Channels :
    /\ Completed(1) /\ Completed(2)
    /\ englishText[1] # englishText[2]
    /\ SeqsOf(2) = {1, 3}
    /\ SeqsOf(1) = {2, 4}
    /\ Len(received[c]) = 4

\* The first submission is still suspended in its transcription call when
\* the second, which arrived after it, has completed.
C16_Overtaken ==
  pc[1] = "transcribing" /\ Completed(2)

\* C17: per submission the transcription provider is called at most once,
\* a failed call is not repeated, and the translation provider is called at
\* most once, only after the transcription returned an accepted transcript.
C17_CallsSequenced ==
  \A r \in Subs :
    /\ whisperCalls[r] <= 1
    /\ translateCalls[r] <= 1
    /\ whisperCalls[r] = (IF pc[r] = "new" \/ outcome[r] \in
                               {"BadRequest", "Misconfigured"} THEN 0 ELSE 1)
    /\ pc[r] = "transcribing" => whisperStatus[r] = "none"
    /\ whisperStatus[r] = "error" => pc[r] = "done" /\ translateCalls[r] = 0
    /\ translateCalls[r] = 1 <=>
         (Accepted(r) /\ pc[r] \in {"translating", "scheduled", "done"})
    /\ pc[r] = "translating" <=>
         (translateCalls[r] = 1 /\ translateStatus[r] = "none")
    /\ translateStatus[r] # "ok" => SeqsOf(r) = {}

\* One submission ended on a failed transcription call and the other on a
\* failed translation call, each provider called once.
C17_Witness ==
  \E r \in Subs : \E q \in Subs :
    /\ whisperStatus[r] = "error" /\ pc[r] = "done" /\ whisperCalls[r] = 1
    /\ translateStatus[q] = "error" /\ pc[q] = "done"
    /\ whisperCalls[q] = 1 /\ translateCalls[q] = 1

\* C20: a step that publishes leaves the registry as it is; a channel
\* enters the registry only in the step that connects it and leaves it only
\* in the step of its close event; a channel that has left OPEN and whose
\* close event has not run is registered, and no publish sends to it.
C20_PublishKeepsRegistry ==
  /\ [](\A c \in Channels :
          /\ readyState[c] = CLOSING => Registered(c)
          /\ \A i \in 1..Len(published) :
               (c \in published[i].registry \ published[i].open) =>
                 c \notin published[i].sent /\ ~Delivered(c, i))
  /\ [][/\ published' # published => clients' = clients
        /\ \A c \in Channels :
             /\ (~Registered(c) /\ \E i \in 1..Len(clients') : clients'[i] = c)
                  => (readyState[c] = 0 /\ readyState'[c] = OPEN)
             /\ (Registered(c) /\ \A i \in 1..Len(clients') : clients'[i] # c)
                  => (readyState[c] = CLOSING /\ readyState'[c] = CLOSED)
       ]_vars

\* A publish skipped a registered channel that had left OPEN, reached the
\* other one, and the skipped channel is still registered after it.
C20_Witness ==
  \E i \in 1..Len(published) : \E c \in Channels : \E d \in Channels :
    /\ c \in published[i].registry \ published[i].open
    /\ Delivered(d, i)
    /\ readyState[c] = CLOSING
    /\ Registered(c)
    /\ Registry = published[i].registry

\* The branches a handler leaves by.
Outcomes == {"BadRequest", "Misconfigured", "NoSpeech", "Filtered",
             "Success", "Failed"}

\* C19: a submission is answered once on the branch it leaves by, never
\* twice and never before that; a submission that has arrived ends, the
\* provider calls returning and the timer firing, and a successful one has
\* ended only when its "final" is published.
C19_OneResponseThenDone ==
  /\ [](\A r \in Subs :
          /\ Len(response[r]) <= 1
          /\ Len(response[r]) = 1 <=> outcome[r] \in Outcomes
          /\ outcome[r] \in Outcomes \cup {"none"}
          /\ pc[r] \in {"new", "transcribing", "translating"} =>
               outcome[r] = "none"
          /\ pc[r] = "scheduled" => outcome[r] = "Success"
          /\ pc[r] = "done" => Len(response[r]) = 1
          /\ (pc[r] = "done" /\ outcome[r] = "Success") =>
               \E i \in SeqsOf(r) : published[i].type = "final"
          /\ outcome[r] \in {"BadRequest", "Misconfigured", "Failed"} <=>
               ErrorResponse(r)
          /\ outcome[r] \in {"NoSpeech", "Filtered", "Success"} <=>
               SuccessResponse(r))
  /\ \A r \in Subs : (pc[r] # "new") ~> (pc[r] = "done")

\* One submission has ended Filtered and the other, successful, has ended
\* after its "final" was published, each with one response.
C19_Witness ==
  \E r \in Subs : \E q \in Subs :
    /\ pc[r] = "done" /\ outcome[r] = "Filtered" /\ Len(response[r]) = 1
    /\ pc[q] = "done" /\ outcome[q] = "Success" /\ Len(response[q]) = 1
    /\ \E i \in SeqsOf(q) : published[i].type = "final"

\* The server is as it was constructed.
ServerUntouched ==
  /\ clients = <<>> /\ published = <<>> /\ ~crashed
  /\ \A c \in Channels : readyState[c] = 0 /\ received[c] = <<>>
  /\ \A r \in Subs : pc[r] = "new" /\ response[r] = <<>>
                     /\ whisperCalls[r] = 0 /\ translateCalls[r] = 0

\* C14: a call of isHalluzination returns true when the trimmed argument
\* has fewer than three characters or any rule of the list matches it, read
\* without case, and false otherwise, which is what evaluating every rule
\* gives; the samples get the verdict read off the rules; the call leaves
\* the server's state as it was.
C14_FilterVerdict ==
  verdict # "none" =>
    /\ verdict = "true" <=>
         \/ Len(Trim(input)) < 3
         \/ \E n \in 1..NumPatterns : PatternTest(n, Trim(input))
    /\ verdict = "true" <=>
         \/ Len(Trim(input)) < 3
         \/ {n \in 1..NumPatterns : PatternTest(n, LowerText(Trim(input)))} # {}
    /\ input \in DenylistSamples => verdict = "true"
    /\ input \in SpeechSamples => verdict = "false"
    /\ ServerUntouched

\* The call returned true for a text that only the last rule matches, in
\* upper and lower case.
C14_Witness ==
  /\ verdict = "true"
  /\ input = <<"Z", "d", "f">>
  /\ \A n \in 1..(NumPatterns - 1) : ~PatternTest(n, Trim(input))

\* The call returned false for a text of three characters.
C14_Accepted ==
  verdict = "false" /\ Len(input) = 3

\* The channels in a registry.
ElemsOf(set) == {set[i] : i \in 1..Len(set)}

\* C15: after clients.delete the channel is not registered; deleting a
\* channel that was not registered, as the second of two deletes of one
\* channel does, leaves the registry as it was; every other channel is
\* registered as before, once, in the same order.
C15_DisconnectIdempotent ==
  dropped # 0 =>
    /\ dropped \notin ElemsOf(clients)
    /\ dropped \notin ElemsOf(before) => clients = before
    /\ repeated => clients = before
    /\ ElemsOf(clients) = ElemsOf(before) \ {dropped}
    /\ Len(clients) = Cardinality(ElemsOf(clients))
    /\ \A i \in 1..Len(clients) : \A j \in 1..Len(clients) :
         i < j => \E k \in 1..Len(before) : \E l \in 1..Len(before) :
                    k < l /\ before[k] = clients[i] /\ before[l] = clients[j]

\* One channel was deleted twice in a row while two others were registered.
C15_Witness ==
  /\ repeated
  /\ dropped # 0
  /\ Len(clients) = 2
  /\ clients = before

\* C18: in part_000 every transcript that is not blank, one the filter
\* would reject too, is published as "partial" with the marked source text
\* by the time the translation call is pending, and a "final" with the
\* translated text follows exactly when the translation succeeded; in
\* index.js every publish is a "translation" or a "final" whose text is
\* the translated text of its submission, never the transcript.
C18_VariantsDiffer ==
  /\ variant = "sourcePartial" =>
       \A r \in Subs :
         LET ev == EventsOf(r)
         IN /\ (whisperStatus[r] = "ok" /\ ~BlankTable[germanText[r]]) =>
                 /\ Len(ev) \in {1, 2}
                 /\ ev[1].type = "partial"
                 /\ ev[1].text = PartialPrefix \o germanText[r]
                 /\ translateCalls[r] = 1
                 /\ pc[r] = "translating" => Len(ev) = 1
                 /\ Len(ev) = 2 <=> translateStatus[r] = "ok"
                 /\ Len(ev) = 2 =>
                      /\ ev[2].type = "final"
                      /\ ev[2].text = englishText[r]
                      /\ SuccessResponse(r)
            /\ ~(whisperStatus[r] = "ok" /\ ~BlankTable[germanText[r]]) =>
                 Len(ev) = 0 /\ translateCalls[r] = 0
  /\ variant = "translateFirst" =>
       \A i \in 1..Len(published) :
         /\ published[i].type \in {"translation", "final"}
         /\ translateStatus[published[i].sub] = "ok"
         /\ published[i].text = englishText[published[i].sub]
         /\ published[i].text # germanText[published[i].sub]
         /\ published[i].text # PartialPrefix \o germanText[published[i].sub]

\* Under part_000 a viewer got the "partial" of a transcript the filter
\* rejects, whose translation then failed, and the "partial" and "final"
\* of the other submission.
C18_Witness ==
  \E r \in Subs : \E q \in Subs : \E c \in Channels :
    /\ variant = "sourcePartial"
    /\ germanText[r] = TxtArd /\ translateStatus[r] = "error"
    /\ Len(EventsOf(r)) = 1
    /\ translateStatus[q] = "ok" /\ Len(EventsOf(q)) = 2
    /\ Len(received[c]) = 3
    /\ received[c][1].type = "partial"

\* Under index.js a submission completed with both events at a viewer.
C18_TranslateFirstSeen ==
  \E r \in Subs : \E c \in Channels :
    /\ variant = "translateFirst"
    /\ Completed(r)
    /\ \A i \in SeqsOf(r) : Delivered(c, i)

====
